---- MODULE Spec2Model ----
\* Model of src/query/alter_table.rs: the ALTER TABLE action model and its
\* SQL renderer.  SQL text is a sequence of one-character strings, so that
\* quoting, separators and verbatim emission are visible character by
\* character.
EXTENDS Integers, Sequences, FiniteSets, TLC

\* ------------------------------------------------------------------ bounds
MaxActions == 2
MaxRenders == 2

\* ------------------------------------------------- text literals of the code
S_ALTER_TABLE == <<"A","L","T","E","R"," ","T","A","B","L","E"," ">>
S_ADD_COLUMN == <<" ","A","D","D"," ","C","O","L","U","M","N"," ">>
S_ALTER_COLUMN == <<" ","A","L","T","E","R"," ","C","O","L","U","M","N"," ">>
S_TYPE == <<" ","T","Y","P","E"," ">>
S_USING == <<" ","U","S","I","N","G"," ">>
S_CAST == <<":",":">>
S_DROP_NOT_NULL == <<" ","D","R","O","P"," ","N","O","T"," ","N","U","L","L">>
S_SET_NOT_NULL == <<" ","S","E","T"," ","N","O","T"," ","N","U","L","L">>
S_ADD_CONSTRAINT == <<" ","A","D","D"," ","C","O","N","S","T","R","A","I","N","T"," ">>
S_FK == <<"f","k","_">>
S_SEP == <<",">>
S_DOT == <<".">>

\* ------------------------------------------------------------ input values
\* Option<T>
None == [some |-> FALSE]
Some(x) == [some |-> TRUE, val |-> x]

T_foo == <<"f","o","o">>
T_id == <<"i","d">>
T_users == <<"u","s","e","r","s">>
T_public == <<"p","u","b","l","i","c">>
T_orders == <<"o","r","d","e","r","s">>
\* the override expression of the test
T_substring == <<"S","U","B","S","T","R","I","N","G","(","f","o","o",","," ","1",","," ","3",")">>

ColumnNames == {T_foo, T_id}
TableNames == {T_users}
Schemas == {None, Some(T_public)}
Types == {"Text", "Integer"}
Dialects == {"Postgres", "Sqlite"}
UsingExprs == {T_substring}
Constraints == {[table |-> T_orders, column |-> T_id]}
Columns == {[name |-> T_id, typ |-> "Integer", nullable |-> FALSE]}

\* ------------------------------------------------ collaborators (crate::*)
\* Type::write_sql; Text on Postgres is fixed by the test of the module.
TypeSql(typ, dialect) ==
    IF typ = "Text"
    THEN IF dialect = "Postgres"
         THEN <<"c","h","a","r","a","c","t","e","r"," ","v","a","r","y","i","n","g">>
         ELSE <<"t","e","x","t">>
    ELSE IF dialect = "Postgres"
         THEN <<"i","n","t","e","g","e","r">>
         ELSE <<"i","n","t">>

\* String::push_str, String::push
push_str(buf, s) == buf \o s
push(buf, ch) == Append(buf, ch)

\* SqlExtension::push_quoted: the identifier wrapped in double quotes
push_quoted(buf, s) == push(push_str(push(buf, "\""), s), "\"")

\* SqlExtension::push_table_name: "schema"."name", or "name" alone
push_table_name(buf, schema, name) ==
    IF schema.some
    THEN push_quoted(push(push_quoted(buf, schema.val), "."), name)
    ELSE push_quoted(buf, name)

\* Constraint::name: the short tag used for the synthesized identifier
Constraint_name(constraint) == constraint.table

\* Constraint::write_sql
Constraint_write_sql(constraint, buf, dialect) ==
    push(push_quoted(push(push_quoted(
        push_str(buf, <<"R","E","F","E","R","E","N","C","E","S"," ">>),
        constraint.table), "("), constraint.column), ")")

\* Column::to_sql
Column_to_sql(column, dialect) ==
    LET head == push_str(push(push_quoted(<<>>, column.name), " "),
                         TypeSql(column.typ, dialect))
    IN IF column.nullable THEN head
       ELSE push_str(head, <<" ","N","O","T"," ","N","U","L","L">>)

\* ------------------------------------------------------------ Action Model
\* AlterAction::set_nullable
set_nullable(name, nullable) ==
    [kind |-> "AlterColumn", name |-> name,
     action |-> [kind |-> "SetNullable", nullable |-> nullable]]

\* AlterAction::set_type
set_type(name, typ) ==
    [kind |-> "AlterColumn", name |-> name,
     action |-> [kind |-> "SetType", typ |-> typ, using |-> None]]

add_constraint_NoColumn(name, constraint) ==
    [kind |-> "AlterColumn", name |-> name,
     action |-> [kind |-> "AddConstraint",
                 name |-> S_FK \o Constraint_name(constraint),
                 constraint |-> constraint]]

\* AlterAction::add_constraint
add_constraint(name, constraint) ==
    LET constraint_name ==
            S_FK \o name \o <<"_">> \o Constraint_name(constraint)
    IN [kind |-> "AlterColumn", name |-> name,
        action |-> [kind |-> "AddConstraint", name |-> constraint_name,
                    constraint |-> constraint]]

\* ------------------------------------------------------------ SQL Renderer
WriteSetType_BlankUsing(name, typ, using, buf, dialect) ==
    LET b1 == push_str(buf, S_TYPE)
        b2 == push_str(b1, TypeSql(typ, dialect))
        b3 == push_str(b2, S_USING)
    IN IF using.some THEN push_str(b3, using.val) ELSE b3

WriteSetType_QuotedUsing(name, typ, using, buf, dialect) ==
    LET b1 == push_str(buf, S_TYPE)
        b2 == push_str(b1, TypeSql(typ, dialect))
        b3 == push_str(b2, S_USING)
    IN IF using.some
       THEN push_quoted(b3, using.val)
       ELSE push_str(push_str(push_quoted(b3, name), S_CAST),
                     TypeSql(typ, dialect))

\* AlterAction::write_sql, arm SetType { typ, using }
WriteSetType(name, typ, using, buf, dialect) ==
    LET b1 == push_str(buf, S_TYPE)
        b2 == push_str(b1, TypeSql(typ, dialect))
        b3 == push_str(b2, S_USING)
    IN IF using.some
       THEN push_str(b3, using.val)
       ELSE push_str(push_str(push_quoted(b3, name), S_CAST),
                     TypeSql(typ, dialect))

WriteSetNullable_Swapped(nullable, buf) ==
    IF nullable THEN push_str(buf, S_SET_NOT_NULL)
    ELSE push_str(buf, S_DROP_NOT_NULL)

\* AlterAction::write_sql, arm SetNullable(nullable)
WriteSetNullable(nullable, buf) ==
    IF nullable THEN push_str(buf, S_DROP_NOT_NULL)
    ELSE push_str(buf, S_SET_NOT_NULL)

WriteAddConstraint_NoSpace(name, constraint, buf, dialect) ==
    Constraint_write_sql(constraint,
        push_quoted(push_str(buf, S_ADD_CONSTRAINT), name), dialect)

\* AlterAction::write_sql, arm AddConstraint { name, constraint }
WriteAddConstraint(name, constraint, buf, dialect) ==
    Constraint_write_sql(constraint,
        push(push_quoted(push_str(buf, S_ADD_CONSTRAINT), name), " "),
        dialect)

\* AlterAction::write_sql
AlterAction_write_sql(self, buf, dialect) ==
    IF self.kind = "AddColumn"
    THEN push_str(push_str(buf, S_ADD_COLUMN),
                  Column_to_sql(self.column, dialect))
    ELSE LET b == push_quoted(push_str(buf, S_ALTER_COLUMN), self.name)
             a == self.action
         IN CASE a.kind = "SetType" ->
                    WriteSetType(self.name, a.typ, a.using, b, dialect)
              [] a.kind = "SetNullable" ->
                    WriteSetNullable(a.nullable, b)
              [] a.kind = "AddConstraint" ->
                    WriteAddConstraint(a.name, a.constraint, b, dialect)

\* SqlExtension::push_sql_sequence: the loop over the elements, the
\* separator pushed before every element but the first
RECURSIVE push_sql_sequence_from(_, _, _, _, _)
push_sql_sequence_from(buf, sql, separator, dialect, i) ==
    IF i > Len(sql) THEN buf
    ELSE LET b == IF i > 1 THEN push_str(buf, separator) ELSE buf
         IN push_sql_sequence_from(AlterAction_write_sql(sql[i], b, dialect),
                                   sql, separator, dialect, i + 1)

push_sql_sequence(buf, sql, separator, dialect) ==
    push_sql_sequence_from(buf, sql, separator, dialect, 1)

\* the table text handed to tracing::error_span!
AlterTable_span(self) ==
    (IF self.schema.some THEN self.schema.val ELSE <<>>)
    \o (IF self.schema.some THEN S_DOT ELSE <<>>)
    \o self.name

NoSpan == [some |-> FALSE]

AlterTable_write_sql_SepSpace(self, buf, dialect, tracing, span) ==
    LET b1 == push_str(buf, S_ALTER_TABLE)
        b2 == push_table_name(b1, self.schema, self.name)
        b3 == push_sql_sequence(b2, self.actions, <<",", " ">>, dialect)
    IN [buf |-> b3,
        span |-> IF tracing THEN Some(AlterTable_span(self)) ELSE span]

AlterTable_write_sql_TrailingSpace(self, buf, dialect, tracing, span) ==
    LET b1 == push_str(buf, S_ALTER_TABLE)
        b2 == push(push_table_name(b1, self.schema, self.name), " ")
        b3 == push_sql_sequence(b2, self.actions, S_SEP, dialect)
    IN [buf |-> b3,
        span |-> IF tracing THEN Some(AlterTable_span(self)) ELSE span]

AlterTable_write_sql_QuotedWhole(self, buf, dialect, tracing, span) ==
    LET b1 == push_str(buf, S_ALTER_TABLE)
        b2 == push_quoted(b1, AlterTable_span(self))
        b3 == push_sql_sequence(b2, self.actions, S_SEP, dialect)
    IN [buf |-> b3,
        span |-> IF tracing THEN Some(AlterTable_span(self)) ELSE span]

AlterTable_write_sql_Overwrite(self, buf, dialect, tracing, span) ==
    LET b1 == S_ALTER_TABLE
        b2 == push_table_name(b1, self.schema, self.name)
        b3 == push_sql_sequence(b2, self.actions, S_SEP, dialect)
    IN [buf |-> b3,
        span |-> IF tracing THEN Some(AlterTable_span(self)) ELSE span]

AlterTable_write_sql_SpanState(self, buf, dialect, tracing, span) ==
    LET b1 == IF span.some THEN buf ELSE push_str(buf, S_ALTER_TABLE)
        b2 == push_table_name(b1, self.schema, self.name)
        b3 == push_sql_sequence(b2, self.actions, S_SEP, dialect)
    IN [buf |-> b3,
        span |-> IF tracing THEN Some(AlterTable_span(self)) ELSE span]

\* AlterTable::write_sql: the buffer and the recorded span after the call
AlterTable_write_sql(self, buf, dialect, tracing, span) ==
    LET b1 == push_str(buf, S_ALTER_TABLE)
        b2 == push_table_name(b1, self.schema, self.name)
        b3 == push_sql_sequence(b2, self.actions, S_SEP, dialect)
    IN [buf |-> b3,
        span |-> IF tracing THEN Some(AlterTable_span(self)) ELSE span]

\* ------------------------------------------------------------------- state
VARIABLES
    table,      \* the AlterTable under construction: schema, name, actions
    buf,        \* the caller-owned output buffer
    dialect,    \* the Dialect the caller renders for
    tracing,    \* whether the build has the "tracing" feature
    span,       \* the last span recorded by the instrumentation
    call,       \* the last constructor call: function and arguments
    last,       \* the last write_sql call: receiver, buffer length before it
    renders     \* number of write_sql calls made on the buffer

vars == <<table, buf, dialect, tracing, span, call, last, renders>>

NoCall == [fn |-> "none"]
NoRender == [kind |-> "none"]

Init ==
    /\ \E s \in Schemas, n \in TableNames :
          table = [schema |-> s, name |-> n, actions |-> <<>>]
    /\ buf = <<>>
    /\ dialect \in Dialects
    /\ tracing \in BOOLEAN
    /\ span = NoSpan
    /\ call = NoCall
    /\ last = NoRender
    /\ renders = 0

\* actions.push(action) of the caller.  A statement is built, then rendered:
\* nothing is pushed once the first write_sql call has been made.
PushAction(a) ==
    /\ renders = 0
    /\ Len(table.actions) < MaxActions
    /\ table' = [table EXCEPT !.actions = Append(@, a)]

CallSetNullable ==
    \E name \in ColumnNames, nullable \in BOOLEAN :
        /\ PushAction(set_nullable(name, nullable))
        /\ call' = [fn |-> "set_nullable", name |-> name, nullable |-> nullable]
        /\ UNCHANGED <<buf, dialect, tracing, span, last, renders>>

CallSetType ==
    \E name \in ColumnNames, typ \in Types :
        /\ PushAction(set_type(name, typ))
        /\ call' = [fn |-> "set_type", name |-> name, typ |-> typ]
        /\ UNCHANGED <<buf, dialect, tracing, span, last, renders>>

CallAddConstraint ==
    \E name \in ColumnNames, constraint \in Constraints :
        /\ PushAction(add_constraint(name, constraint))
        /\ call' = [fn |-> "add_constraint", name |-> name,
                    constraint |-> constraint]
        /\ UNCHANGED <<buf, dialect, tracing, span, last, renders>>

\* AlterAction::AlterColumn { name, action: SetType { typ, using: Some(expr) } }
BuildSetTypeUsing ==
    \E name \in ColumnNames, typ \in Types, expr \in UsingExprs :
        /\ PushAction([kind |-> "AlterColumn", name |-> name,
                       action |-> [kind |-> "SetType", typ |-> typ,
                                   using |-> Some(expr)]])
        /\ call' = [fn |-> "literal"]
        /\ UNCHANGED <<buf, dialect, tracing, span, last, renders>>

\* AlterAction::AddColumn { column }
BuildAddColumn ==
    \E column \in Columns :
        /\ PushAction([kind |-> "AddColumn", column |-> column])
        /\ call' = [fn |-> "literal"]
        /\ UNCHANGED <<buf, dialect, tracing, span, last, renders>>

\* action.write_sql(&mut buf, dialect) on the action built last
RenderAction ==
    /\ renders < MaxRenders
    /\ table.actions # <<>>
    /\ LET action == table.actions[Len(table.actions)]
       IN /\ buf' = AlterAction_write_sql(action, buf, dialect)
          /\ last' = [kind |-> "action", value |-> action, mark |-> Len(buf)]
    /\ renders' = renders + 1
    /\ UNCHANGED <<table, dialect, tracing, span, call>>

\* table.write_sql(&mut buf, dialect)
RenderTable ==
    /\ renders < MaxRenders
    /\ LET r == AlterTable_write_sql(table, buf, dialect, tracing, span)
       IN /\ buf' = r.buf
          /\ span' = r.span
    /\ last' = [kind |-> "table", value |-> table, mark |-> Len(buf)]
    /\ renders' = renders + 1
    /\ UNCHANGED <<table, dialect, tracing, call>>

Next ==
    \/ CallSetNullable
    \/ CallSetType
    \/ CallAddConstraint
    \/ BuildSetTypeUsing
    \/ BuildAddColumn
    \/ RenderAction
    \/ RenderTable

Spec == Init /\ [][Next]_vars

\* ------------------------------------------------------------- properties
\* the text appended by the last write_sql call
Appended == SubSeq(buf, last.mark + 1, Len(buf))

Quoted(s) == <<"\"">> \o s \o <<"\"">>

QualifiedName(schema, name) ==
    IF schema.some THEN Quoted(schema.val) \o <<".">> \o Quoted(name)
    ELSE Quoted(name)

\* the fragment one action renders on its own
Fragment(a) == AlterAction_write_sql(a, <<>>, dialect)

\* fragments i..n of the list, a comma between consecutive ones only
RECURSIVE Joined(_, _)
Joined(acts, i) ==
    IF i > Len(acts) THEN <<>>
    ELSE Fragment(acts[i])
         \o (IF i < Len(acts) THEN <<",">> ELSE <<>>)
         \o Joined(acts, i + 1)

IsPrefix(p, t) == Len(p) <= Len(t) /\ SubSeq(t, 1, Len(p)) = p

\* C1: the action built by set_type(name, typ) renders
\* ` ALTER COLUMN "<name>" TYPE <typ-sql> USING "<name>"::<typ-sql>`, the
\* same type text in both places and the USING expression never blank.
C1_SetTypeDefaultCast ==
    \A name \in ColumnNames, typ \in Types :
        (last.kind = "action" /\ last.value = set_type(name, typ)) =>
            /\ Appended = S_ALTER_COLUMN \o Quoted(name) \o S_TYPE
                          \o TypeSql(typ, dialect) \o S_USING
                          \o Quoted(name) \o <<":", ":">>
                          \o TypeSql(typ, dialect)
            /\ ~ IsPrefix(Appended, S_ALTER_COLUMN \o Quoted(name) \o S_TYPE
                                    \o TypeSql(typ, dialect) \o S_USING)

C1_Witness ==
    /\ last.kind = "action"
    /\ last.value = set_type(T_foo, "Text")
    /\ dialect = "Postgres"
    /\ call.fn = "set_type"

\* C2: with using = Some(expr) the action renders
\* ` ALTER COLUMN "<name>" TYPE <typ-sql> USING ` followed by expr exactly as
\* given, and the default cast is not emitted.
C2_SetTypeUsingVerbatim ==
    \A name \in ColumnNames, typ \in Types, expr \in UsingExprs :
        (/\ last.kind = "action"
         /\ last.value = [kind |-> "AlterColumn", name |-> name,
                          action |-> [kind |-> "SetType", typ |-> typ,
                                      using |-> Some(expr)]]) =>
            Appended = S_ALTER_COLUMN \o Quoted(name) \o S_TYPE
                       \o TypeSql(typ, dialect) \o S_USING \o expr

C2_Witness ==
    /\ last.kind = "action"
    /\ last.value.kind = "AlterColumn"
    /\ last.value.name = T_foo
    /\ last.value.action = [kind |-> "SetType", typ |-> "Text",
                            using |-> Some(T_substring)]
    /\ dialect = "Postgres"

\* C3: set_nullable(name, TRUE) renders ` ALTER COLUMN "<name>" DROP NOT NULL`
\* and set_nullable(name, FALSE) renders ` ALTER COLUMN "<name>" SET NOT NULL`.
C3_SetNullable ==
    \A name \in ColumnNames :
        /\ (last.kind = "action" /\ last.value = set_nullable(name, TRUE)) =>
              Appended = S_ALTER_COLUMN \o Quoted(name)
                         \o <<" ","D","R","O","P"," ","N","O","T"," ","N","U","L","L">>
        /\ (last.kind = "action" /\ last.value = set_nullable(name, FALSE)) =>
              Appended = S_ALTER_COLUMN \o Quoted(name)
                         \o <<" ","S","E","T"," ","N","O","T"," ","N","U","L","L">>

C3_Witness ==
    /\ last.kind = "action"
    /\ last.value = set_nullable(T_foo, TRUE)
    /\ call.fn = "set_nullable"

\* C4: add_constraint(name, constraint) returns an AlterColumn on the given
\* name whose AddConstraint name is fk_ + name + _ + constraint.name(); equal
\* inputs give equal actions.
C4_AddConstraintName ==
    /\ call.fn = "add_constraint" =>
          LET a == table.actions[Len(table.actions)]
          IN /\ a.kind = "AlterColumn"
             /\ a.name = call.name
             /\ a.action.kind = "AddConstraint"
             /\ a.action.name = <<"f","k","_">> \o call.name \o <<"_">>
                                \o Constraint_name(call.constraint)
             /\ a.action.constraint = call.constraint
    /\ \A i, j \in 1..Len(table.actions) :
          LET a == table.actions[i]
              b == table.actions[j]
          IN (/\ a.kind = "AlterColumn" /\ b.kind = "AlterColumn"
              /\ a.action.kind = "AddConstraint"
              /\ b.action.kind = "AddConstraint"
              /\ a.name = b.name
              /\ a.action.constraint = b.action.constraint) => a = b

C4_Witness ==
    /\ call.fn = "add_constraint"
    /\ call.name = T_foo
    /\ Len(table.actions) = 2
    /\ table.actions[1] = table.actions[2]

\* C5: an AlterTable with n actions renders, after the qualified table
\* name, the n fragments in list order with a comma between consecutive
\* fragments only, and every fragment begins with a space.
C5_ActionsInOrder ==
    last.kind = "table" =>
        /\ Appended = S_ALTER_TABLE
                      \o QualifiedName(last.value.schema, last.value.name)
                      \o Joined(last.value.actions, 1)
        /\ \A i \in 1..Len(last.value.actions) :
              Fragment(last.value.actions[i])[1] = " "

C5_Witness ==
    /\ last.kind = "table"
    /\ Len(last.value.actions) = 2
    /\ last.value.actions[1] # last.value.actions[2]

\* C6: an AlterTable with no actions and no schema renders exactly
\* `ALTER TABLE "<name>"`.
C6_EmptyActions ==
    (/\ last.kind = "table"
     /\ last.value.actions = <<>>
     /\ ~ last.value.schema.some) =>
        Appended = S_ALTER_TABLE \o Quoted(last.value.name)

C6_Witness ==
    /\ last.kind = "table"
    /\ last.value.actions = <<>>
    /\ ~ last.value.schema.some

\* C7: with schema = Some(s) the rendering starts with
\* `ALTER TABLE "<s>"."<name>"`; with schema = None it starts with
\* `ALTER TABLE "<name>"` and no `.` follows.
C7_QualifiedName ==
    last.kind = "table" =>
        LET v == last.value
            some == S_ALTER_TABLE \o Quoted(v.schema.val) \o <<".">>
                    \o Quoted(v.name)
            none == S_ALTER_TABLE \o Quoted(v.name)
        IN IF v.schema.some
           THEN IsPrefix(some, Appended)
           ELSE /\ IsPrefix(none, Appended)
                /\ Len(Appended) > Len(none) =>
                      Appended[Len(none) + 1] # "."

C7_Witness ==
    /\ last.kind = "table"
    /\ last.value.schema = Some(T_public)
    /\ Len(last.value.actions) > 0

\* what the receiver of the last call renders into an empty buffer
RendersAlone(l, tr) ==
    IF l.kind = "action"
    THEN AlterAction_write_sql(l.value, <<>>, dialect)
    ELSE AlterTable_write_sql(l.value, <<>>, dialect, tr, NoSpan).buf

\* C8: every write_sql call only appends: the buffer before the call is a
\* prefix of the buffer after it, the appended text is what the value renders
\* into an empty buffer, and the value is not modified.
C8_AppendOnly ==
    [][renders' # renders =>
          /\ IsPrefix(buf, buf')
          /\ buf' = buf \o RendersAlone(last', tracing)
          /\ table' = table
          /\ last'.value \in {table} \cup {table.actions[i] :
                                             i \in 1..Len(table.actions)}]_vars

C8_Witness ==
    /\ renders = 2
    /\ last.kind = "table"
    /\ last.mark > 0
    /\ Len(last.value.actions) > 0

\* C9: the renderer keeps no state between calls: a table rendered after
\* earlier calls yields the text it yields when rendered first, with the
\* tracing instrumentation on or off.
C9_Stateless ==
    last.kind = "table" =>
        /\ Appended = RendersAlone(last, FALSE)
        /\ Appended = RendersAlone(last, TRUE)

C9_Witness ==
    /\ renders = 2
    /\ tracing
    /\ span.some
    /\ last.kind = "table"
    /\ last.mark > 0
    /\ buf = Appended \o Appended

\* C10: the action built by add_constraint(col, constraint) renders
\* ` ALTER COLUMN "<col>" ADD CONSTRAINT "fk_<col>_<constraint.name()>" `
\* followed by the rendered constraint definition.
C10_AddConstraintSql ==
    \A col \in ColumnNames, constraint \in Constraints :
        (last.kind = "action" /\ last.value = add_constraint(col, constraint)) =>
            Appended = S_ALTER_COLUMN \o Quoted(col) \o S_ADD_CONSTRAINT
                       \o Quoted(<<"f","k","_">> \o col \o <<"_">>
                                 \o Constraint_name(constraint))
                       \o <<" ">>
                       \o Constraint_write_sql(constraint, <<>>, dialect)

C10_Witness ==
    /\ last.kind = "action"
    /\ last.value = add_constraint(T_foo, [table |-> T_orders, column |-> T_id])
    /\ call.fn = "add_constraint"

====
